---- MODULE Spec2Model ----
(***************************************************************************)
(* Model of the OpenTTD Social Integration API binding.                    *)
(*                                                                         *)
(*   openttd_social_integration_api_macros/src/lib.rs                      *)
(*       the #[init(platform = .., name = .., version = ..)] attribute     *)
(*       macro: Attributes::parse, init, impl_init, and the two exported   *)
(*       functions it generates, SocialIntegration_v1_GetInfo and          *)
(*       SocialIntegration_v1_Init.                                        *)
(*   src/lib.rs                                                            *)
(*       PluginApi, the static mut PLUGIN_API, the seven extern "C"        *)
(*       trampolines, wrapper_some! and call_init.                         *)
(*                                                                         *)
(* Two specifications share the variables:                                 *)
(*   SpecBuild  the macro expansion, over bounded attribute lists;         *)
(*   Spec       the loaded module: the host calls GetInfo, Init and the    *)
(*              trampoline pointers it was handed, in any order.           *)
(***************************************************************************)
EXTENDS Integers, Sequences, FiniteSets, TLC

VARIABLES
    item,        \* build: the item the attribute is attached to
    args,        \* build: the attribute's argument list
    attrs,       \* build: Attributes { social_platform, name, version }
    expanded,    \* build: "pending" | "compile_error" | "symbols"
    plugin_info, \* host record GetInfo writes through *plugin_info
    PLUGIN_API,  \* static mut PLUGIN_API: PluginApi
    plugin_api,  \* host record Init writes through *plugin_api
    handed,      \* trampoline pointers the host has received in a table
    host,        \* "alive" | "aborted" | "unwound"
    inits,       \* how many times the host has called Init
    last,        \* the last host call: its name and its inputs
    called,      \* user callbacks invoked during the last host call
    ret          \* what the last host call returned to the host

vars == <<item, args, attrs, expanded, plugin_info, PLUGIN_API, plugin_api,
          handed, host, inits, last, called, ret>>

----------------------------------------------------------------------------
(* Option<T>: None is the empty sequence, Some(x) the one-element sequence. *)
None == <<>>
Some(x) == <<x>>

----------------------------------------------------------------------------
(* Characters and string literals.  A string is a sequence of characters.  *)
DQ == "\""
BS == "\\"
NUL == "NUL"

\* The string-literal values tried as attribute values.
LitVals == { <<>>, <<"t">>, <<"a", DQ>> }

\* A value that is not a string literal (platform = 3, or no "= value").
NotStr == <<"not_a_string_literal">>

RECURSIVE Escape(_)
\* The source text of a string's characters inside a "..." literal.
Escape(s) ==
    IF s = <<>> THEN <<>>
    ELSE (IF Head(s) \in {DQ, BS} THEN <<BS, Head(s)>> ELSE <<Head(s)>>)
         \o Escape(Tail(s))

\* The token of a LitStr with value v, as written in the source.
LitToken(v) == <<DQ>> \o Escape(v) \o <<DQ>>

----------------------------------------------------------------------------
(* Build time: the attribute macro.                                        *)

\* Longest attribute argument list tried.
MaxArgs == 3

\* The names an argument can carry: the three the macro knows and one more.
Idents == {"platform", "name", "version", "other"}

\* One `ident = value` argument of the attribute.
Metas == [ident : Idents, value : LitVals \cup {NotStr}]

ArgLists == UNION { [1..n -> Metas] : n \in 0..MaxArgs }

\* What the attribute is attached to: a function item or something else.
Items == {"fn", "not_fn"}

\* #[derive(Default)] struct Attributes
AttributesDefault == [social_platform |-> None, name |-> None, version |-> None]

\* meta.value()?.parse()? for a LitStr: an error unless a string literal follows.
value_parse(meta) ==
    IF meta.value = NotStr THEN [ok |-> FALSE, lit |-> None]
    ELSE [ok |-> TRUE, lit |-> Some(meta.value)]

\* Attributes::parse: one argument into self, or an error.
parse(self, meta) ==
    IF meta.ident = "platform" THEN
        [ok |-> value_parse(meta).ok,
         attrs |-> IF value_parse(meta).ok
                   THEN [self EXCEPT !.social_platform = value_parse(meta).lit]
                   ELSE self]
    ELSE IF meta.ident = "name" THEN
        [ok |-> value_parse(meta).ok,
         attrs |-> IF value_parse(meta).ok
                   THEN [self EXCEPT !.name = value_parse(meta).lit]
                   ELSE self]
    ELSE IF meta.ident = "version" THEN
        [ok |-> value_parse(meta).ok,
         attrs |-> IF value_parse(meta).ok
                   THEN [self EXCEPT !.version = value_parse(meta).lit]
                   ELSE self]
    ELSE [ok |-> FALSE, attrs |-> self]

RECURSIVE arg_parser(_, _)
\* syn::meta::parser(|meta| attrs.parse(meta)) run over the argument list:
\* the arguments in order, stopping at the first error.
arg_parser(self, list) ==
    IF list = <<>> THEN [ok |-> TRUE, attrs |-> self]
    ELSE IF ~parse(self, Head(list)).ok THEN [ok |-> FALSE, attrs |-> self]
    ELSE arg_parser(parse(self, Head(list)).attrs, Tail(list))

\* Mutant of missing: the three tests joined by && instead of ||.
missing_all(a) == a.name = None /\ a.social_platform = None /\ a.version = None

\* The test of line 72: some required attribute was never supplied.
missing(a) == a.name = None \/ a.social_platform = None \/ a.version = None

\* Mutant of init_expand: the test of line 72 left out.
init_expand_untested(it, list) ==
    IF it # "fn" THEN [out |-> "compile_error", attrs |-> AttributesDefault]
    ELSE IF ~arg_parser(AttributesDefault, list).ok
        THEN [out |-> "compile_error",
              attrs |-> arg_parser(AttributesDefault, list).attrs]
    ELSE [out |-> "symbols", attrs |-> arg_parser(AttributesDefault, list).attrs]

\* The macro: what it emits for an item and an argument list.
init_expand(it, list) ==
    IF it # "fn" THEN [out |-> "compile_error", attrs |-> AttributesDefault]
    ELSE IF ~arg_parser(AttributesDefault, list).ok
        THEN [out |-> "compile_error",
              attrs |-> arg_parser(AttributesDefault, list).attrs]
    ELSE IF missing(arg_parser(AttributesDefault, list).attrs)
        THEN [out |-> "compile_error",
              attrs |-> arg_parser(AttributesDefault, list).attrs]
    ELSE [out |-> "symbols", attrs |-> arg_parser(AttributesDefault, list).attrs]

\* The attribute macro runs once on the annotated item.
init ==
    /\ expanded = "pending"
    /\ expanded' = init_expand(item, args).out
    /\ attrs' = init_expand(item, args).attrs
    /\ UNCHANGED <<item, args, plugin_info, PLUGIN_API, plugin_api, handed,
                   host, inits, last, called, ret>>

----------------------------------------------------------------------------
(* Run time: the types of src/lib.rs.                                      *)

\* The fields of PluginApi, which are also the names of the trampolines.
Slots == {"shutdown", "run_callbacks", "event_enter_main_menu",
          "event_enter_scenario_editor", "event_enter_singleplayer",
          "event_enter_multiplayer", "event_joining_multiplayer"}

\* A null function pointer in the ABI table.
NULL == "NULL"

\* The plugin author's callbacks: one function per slot, as in the crate's
\* example (fn shutdown, fn run_callbacks, ...).
UserFn(s) == <<"fn", s>>

\* Every PluginApi value the user init function is tried with: every subset
\* of the slots present.
Tables ==
    { [s \in Slots |-> IF s \in S THEN Some(UserFn(s)) ELSE None] :
        S \in SUBSET Slots }

\* Result<Option<PluginApi>, ()>
Ok(v) == [ok |-> TRUE, val |-> v]
Err == [ok |-> FALSE, val |-> None]
InitReturns == { Ok(Some(t)) : t \in Tables } \cup {Ok(None), Err}

\* InitResult codes of raw_api.
INIT_SUCCESS == "OTTD_SOCIAL_INTEGRATION_V1_INIT_SUCCESS"
INIT_FAILED == "OTTD_SOCIAL_INTEGRATION_V1_INIT_FAILED"
INIT_PLATFORM_NOT_RUNNING == "OTTD_SOCIAL_INTEGRATION_V1_INIT_PLATFORM_NOT_RUNNING"

\* The (map_width, map_height) pairs the host passes.
MapSizes == { <<800, 600>>, <<64, 64>> }

\* How many times the host is let call Init.  The host's protocol calls it
\* once; nothing in the module stops a further call.
MaxInits == 2

\* static mut PLUGIN_API as the module is loaded.
PLUGIN_API_static == [s \in Slots |-> None]

\* The slots present in a PluginApi value.
Present(api) == { s \in Slots : api[s] # None }

\* Mutant of wrapper_some: the trampoline whether or not the slot is present.
wrapper_some_always(x, p) == x

\* wrapper_some!(x), reading the PluginApi value p that PLUGIN_API holds.
wrapper_some(x, p) == IF p[x] # None THEN x ELSE NULL

\* The OpenTTD_SocialIntegration_v1_PluginApi literal of call_init.
abi_table(p) == [s \in Slots |-> wrapper_some(s, p)]

\* Mutant of call_init: a failed init clears PLUGIN_API.
call_init_reset(r, cur) ==
    IF r.ok /\ r.val # None THEN
        [singleton |-> r.val[1],
         api |-> Some(abi_table(r.val[1])),
         code |-> INIT_SUCCESS]
    ELSE IF r.ok THEN
        [singleton |-> PLUGIN_API_static, api |-> None,
         code |-> INIT_PLATFORM_NOT_RUNNING]
    ELSE
        [singleton |-> PLUGIN_API_static, api |-> None, code |-> INIT_FAILED]

\* Mutant of call_init: the table is built before PLUGIN_API is assigned.
call_init_stale(r, cur) ==
    IF r.ok /\ r.val # None THEN
        [singleton |-> r.val[1],
         api |-> Some(abi_table(cur)),
         code |-> INIT_SUCCESS]
    ELSE IF r.ok THEN
        [singleton |-> cur, api |-> None, code |-> INIT_PLATFORM_NOT_RUNNING]
    ELSE
        [singleton |-> cur, api |-> None, code |-> INIT_FAILED]

\* call_init: r is what the user init function returned, cur is PLUGIN_API
\* on entry.  PLUGIN_API is assigned before the table is built from it.
call_init(r, cur) ==
    IF r.ok /\ r.val # None THEN
        [singleton |-> r.val[1],
         api |-> Some(abi_table(r.val[1])),
         code |-> INIT_SUCCESS]
    ELSE IF r.ok THEN
        [singleton |-> cur, api |-> None, code |-> INIT_PLATFORM_NOT_RUNNING]
    ELSE
        [singleton |-> cur, api |-> None, code |-> INIT_FAILED]

\* The non-null pointers of an ABI table.
Armed(t) == { t[s] : s \in Slots } \ {NULL}

----------------------------------------------------------------------------
(* The generated exported functions.                                       *)

\* stringify!(#lit) for a LitStr: the source text of the literal token,
\* quotes and escapes included.
stringify(v) == LitToken(v)

\* str::as_ptr().cast(): a pointer to the first byte of a &'static str.  The
\* pointer is modelled by the bytes of the allocation it points into; a str
\* carries no terminator, and what lies past its last byte is not part of it.
as_ptr(s) == [alloc |-> s]

\* What a return to the host carries.
Void == [kind |-> "void"]
NoReturn == [kind |-> "no_return"]
Code(c) == [kind |-> "InitResult", val |-> c]
Bool(b) == [kind |-> "bool", val |-> b]

\* The host may call into the module: it is generated, and the process lives.
callable == expanded = "symbols" /\ host = "alive"

\* SocialIntegration_v1_GetInfo(plugin_info)
SocialIntegration_v1_GetInfo ==
    /\ callable
    /\ plugin_info' =
         Some([social_platform |-> as_ptr(stringify(attrs.social_platform[1])),
               name |-> as_ptr(stringify(attrs.name[1])),
               version |-> as_ptr(stringify(attrs.version[1]))])
    /\ last' = [op |-> "GetInfo", args |-> <<>>]
    /\ called' = <<>>
    /\ ret' = Void
    /\ UNCHANGED <<item, args, attrs, expanded, PLUGIN_API, plugin_api,
                   handed, host, inits>>

\* SocialIntegration_v1_Init(plugin_api, openttd_info): r is what the user
\* init function returns.  call_init first decodes openttd_info into an owned
\* OpenTTDInfo and passes it to the user function; the decoding writes no
\* state, and r ranges over every return whatever the info was.
SocialIntegration_v1_Init ==
    /\ callable
    /\ inits < MaxInits
    /\ inits' = inits + 1
    /\ \E r \in InitReturns :
         LET c == call_init(r, PLUGIN_API) IN
         /\ PLUGIN_API' = c.singleton
         /\ plugin_api' = IF c.api # None THEN c.api[1] ELSE plugin_api
         /\ handed' = IF c.api # None THEN handed \cup Armed(c.api[1])
                      ELSE handed
         /\ ret' = Code(c.code)
         /\ last' = [op |-> "Init", args |-> <<r>>]
    /\ called' = <<>>
    /\ UNCHANGED <<item, args, attrs, expanded, plugin_info, host>>

----------------------------------------------------------------------------
(* The trampolines.  They are private to the crate: the host reaches one   *)
(* only through a pointer of a table Init has written.                     *)

\* The host calls the pointer to trampoline x with the arguments a.
host_calls(x, a) ==
    /\ callable
    /\ x \in handed
    /\ last' = [op |-> x, args |-> a]
    /\ UNCHANGED <<item, args, attrs, expanded, plugin_info, PLUGIN_API,
                   plugin_api, handed, inits>>

\* PLUGIN_API.x.unwrap()(a) inside an extern "C" function: the stored
\* callback runs, returns b, and the trampoline returns rv; on None unwrap
\* panics, and a panic leaving an extern "C" function either aborts the
\* process or unwinds into the host's frames, as the toolchain has it.
unwrap_call(x, a, b, rv) ==
    IF PLUGIN_API[x] = None
    THEN /\ host' \in {"aborted", "unwound"}
         /\ called' = <<>>
         /\ ret' = NoReturn
    ELSE /\ host' = host
         /\ called' = <<[fn |-> PLUGIN_API[x][1], args |-> a, result |-> b]>>
         /\ ret' = rv

\* Mutant of shutdown: the trampoline also clears PLUGIN_API.
shutdown_clears ==
    /\ callable
    /\ "shutdown" \in handed
    /\ last' = [op |-> "shutdown", args |-> <<>>]
    /\ PLUGIN_API' = PLUGIN_API_static
    /\ unwrap_call("shutdown", <<>>, "unit", Void)
    /\ UNCHANGED <<item, args, attrs, expanded, plugin_info, plugin_api,
                   handed, inits>>

shutdown ==
    /\ host_calls("shutdown", <<>>)
    /\ unwrap_call("shutdown", <<>>, "unit", Void)

run_callbacks ==
    \E b \in BOOLEAN :
        /\ host_calls("run_callbacks", <<>>)
        /\ unwrap_call("run_callbacks", <<>>, b, Bool(b))

event_enter_main_menu ==
    /\ host_calls("event_enter_main_menu", <<>>)
    /\ unwrap_call("event_enter_main_menu", <<>>, "unit", Void)

event_enter_scenario_editor ==
    \E map_width \in {m[1] : m \in MapSizes},
       map_height \in {m[2] : m \in MapSizes} :
        /\ <<map_width, map_height>> \in MapSizes
        /\ host_calls("event_enter_scenario_editor", <<map_width, map_height>>)
        /\ unwrap_call("event_enter_scenario_editor",
                       <<map_width, map_height>>, "unit", Void)

\* Mutant of event_enter_singleplayer: the two arguments exchanged.
event_enter_singleplayer_swapped ==
    \E map_width \in {m[1] : m \in MapSizes},
       map_height \in {m[2] : m \in MapSizes} :
        /\ <<map_width, map_height>> \in MapSizes
        /\ host_calls("event_enter_singleplayer", <<map_width, map_height>>)
        /\ unwrap_call("event_enter_singleplayer",
                       <<map_height, map_width>>, "unit", Void)

event_enter_singleplayer ==
    \E map_width \in {m[1] : m \in MapSizes},
       map_height \in {m[2] : m \in MapSizes} :
        /\ <<map_width, map_height>> \in MapSizes
        /\ host_calls("event_enter_singleplayer", <<map_width, map_height>>)
        /\ unwrap_call("event_enter_singleplayer",
                       <<map_width, map_height>>, "unit", Void)

event_enter_multiplayer ==
    \E map_width \in {m[1] : m \in MapSizes},
       map_height \in {m[2] : m \in MapSizes} :
        /\ <<map_width, map_height>> \in MapSizes
        /\ host_calls("event_enter_multiplayer", <<map_width, map_height>>)
        /\ unwrap_call("event_enter_multiplayer",
                       <<map_width, map_height>>, "unit", Void)

event_joining_multiplayer ==
    /\ host_calls("event_joining_multiplayer", <<>>)
    /\ unwrap_call("event_joining_multiplayer", <<>>, "unit", Void)

----------------------------------------------------------------------------
(* The specifications.                                                     *)

\* The record behind plugin_api before Init writes it: zeroed, or holding
\* the host's own earlier contents.
HostRecords == { [s \in Slots |-> NULL], [s \in Slots |-> "HOST"] }

\* The module as loaded, before any host call.
Loaded ==
    /\ plugin_info = None
    /\ PLUGIN_API = PLUGIN_API_static
    /\ plugin_api \in HostRecords
    /\ handed = {}
    /\ host = "alive"
    /\ inits = 0
    /\ last = [op |-> "load", args |-> <<>>]
    /\ called = <<>>
    /\ ret = Void

\* Build: any item, any argument list, not yet expanded.
InitBuild ==
    /\ item \in Items
    /\ args \in ArgLists
    /\ attrs = AttributesDefault
    /\ expanded = "pending"
    /\ Loaded

NextBuild ==
    \/ init
    \/ SocialIntegration_v1_GetInfo

SpecBuild == InitBuild /\ [][NextBuild]_vars

\* The attribute list of the plugin that is loaded and run.
RunArgs ==
    { << [ident |-> "platform", value |-> <<"t">>],
         [ident |-> "name", value |-> <<"a", DQ>>],
         [ident |-> "version", value |-> <<"t">>] >> }

\* Run: a module the macro has generated, as loaded.
Init ==
    /\ item = "fn"
    /\ args \in RunArgs
    /\ attrs = init_expand(item, args).attrs
    /\ expanded = init_expand(item, args).out
    /\ Loaded

Next ==
    \/ SocialIntegration_v1_GetInfo
    \/ SocialIntegration_v1_Init
    \/ shutdown
    \/ run_callbacks
    \/ event_enter_main_menu
    \/ event_enter_scenario_editor
    \/ event_enter_singleplayer
    \/ event_enter_multiplayer
    \/ event_joining_multiplayer

Spec == Init /\ [][Next]_vars

----------------------------------------------------------------------------
(* Claims about Init.                                                      *)

\* The user init function returned Ok(Some(table)).
IsSuccess(r) == r.ok /\ r.val # None

\* C1: after an Init whose user init function returned Success with a table
\* whose present slots are S, the record behind plugin_api holds, for each
\* slot in S, that slot's own trampoline, and null for each slot not in S,
\* and Init returned SUCCESS.
C1_SuccessArmsExactlyPresent ==
    (last.op = "Init" /\ IsSuccess(last.args[1])) =>
        /\ ret = Code(INIT_SUCCESS)
        /\ \A s \in Slots :
             plugin_api[s] =
                 IF last.args[1].val[1][s] # None THEN s ELSE NULL

\* C1 witness: a Success with two of the seven slots present has been written.
C1_Witness ==
    /\ last.op = "Init"
    /\ IsSuccess(last.args[1])
    /\ Present(last.args[1].val[1]) = {"run_callbacks", "event_enter_multiplayer"}
    /\ Armed(plugin_api) = {"run_callbacks", "event_enter_multiplayer"}
    /\ ret = Code(INIT_SUCCESS)

\* C2: an Init whose user init function returned Ok(None) or Err returns
\* PLATFORM_NOT_RUNNING or FAILED respectively and leaves both the record
\* behind plugin_api and PLUGIN_API as they were before the call.
C2_FailureLeavesAllUntouched ==
    [][(inits' = inits + 1 /\ ~IsSuccess(last'.args[1])) =>
          /\ ret' = Code(IF last'.args[1].ok THEN INIT_PLATFORM_NOT_RUNNING
                         ELSE INIT_FAILED)
          /\ plugin_api' = plugin_api
          /\ PLUGIN_API' = PLUGIN_API]_vars

\* C2 witness: an Init has failed after an earlier one succeeded, and the
\* earlier table is still in the record and in PLUGIN_API.
C2_Witness ==
    /\ last.op = "Init"
    /\ last.args[1] = Err
    /\ ret = Code(INIT_FAILED)
    /\ inits = 2
    /\ Present(PLUGIN_API) = {"shutdown"}
    /\ plugin_api = abi_table(PLUGIN_API)

\* C5 as claimed: once a successful Init has stored a table, no later host
\* call changes PLUGIN_API.
C5_WrittenOnce ==
    [][PLUGIN_API # PLUGIN_API_static => PLUGIN_API' = PLUGIN_API]_vars

\* C5: PLUGIN_API changes only in an Init whose user init function returned
\* Success, and then holds the table that call returned; GetInfo, the
\* trampolines and an Init that did not succeed never change it.
C5_OnlySuccessfulInitWrites ==
    [][PLUGIN_API' # PLUGIN_API =>
          /\ inits' = inits + 1
          /\ last'.op = "Init"
          /\ IsSuccess(last'.args[1])
          /\ PLUGIN_API' = last'.args[1].val[1]
          /\ ret' = Code(INIT_SUCCESS)]_vars

\* C5 witness: a second successful Init has replaced the stored table: the
\* host holds a pointer of the first table that the second leaves absent.
C5_Witness ==
    /\ inits = 2
    /\ last.op = "Init"
    /\ IsSuccess(last.args[1])
    /\ PLUGIN_API = last.args[1].val[1]
    /\ Present(PLUGIN_API) = {"shutdown"}
    /\ handed = {"shutdown", "run_callbacks"}

\* C10 as claimed: every trampoline pointer the host has been handed in any
\* table is for a slot present in PLUGIN_API.
C10_HandedArePresent == \A x \in handed : PLUGIN_API[x] # None

\* C10: every trampoline pointer in the record Init last wrote is for a slot
\* present in PLUGIN_API.
C10_LatestTableIsPresent ==
    \A s \in Slots : plugin_api[s] \in Slots => PLUGIN_API[plugin_api[s]] # None

\* C10 witness: after a second successful Init the record holds the new
\* table's pointers, all present, while a pointer handed earlier is stale.
C10_Witness ==
    /\ inits = 2
    /\ Armed(plugin_api) = {"event_enter_main_menu"}
    /\ Present(PLUGIN_API) = {"event_enter_main_menu"}
    /\ "event_joining_multiplayer" \in handed

----------------------------------------------------------------------------
(* Claims about the trampolines.                                           *)

\* C3: a trampoline called while its slot is present in PLUGIN_API calls the
\* callback stored in that slot, once, with the arguments the host passed;
\* run_callbacks returns the boolean the callback returned; PLUGIN_API is
\* unchanged and the call returns to the host.
C3_TrampolineForwards ==
    [][(inits' = inits /\ last'.op \in Slots /\ PLUGIN_API[last'.op] # None) =>
          /\ Len(called') = 1
          /\ called'[1].fn = PLUGIN_API[last'.op][1]
          /\ called'[1].fn = UserFn(last'.op)
          /\ called'[1].args = last'.args
          /\ ret' = IF last'.op = "run_callbacks"
                    THEN Bool(called'[1].result) ELSE Void
          /\ PLUGIN_API' = PLUGIN_API
          /\ host' = "alive"]_vars

\* C3 witness: event_enter_singleplayer(800, 600) has reached the stored
\* callback with (800, 600).
C3_Witness ==
    /\ last = [op |-> "event_enter_singleplayer", args |-> <<800, 600>>]
    /\ called = <<[fn |-> UserFn("event_enter_singleplayer"),
                   args |-> <<800, 600>>, result |-> "unit"]>>
    /\ ret = Void
    /\ host = "alive"

\* C4 as claimed: a trampoline called while its slot is absent in PLUGIN_API
\* returns normally to the host and the host process stays alive.
C4_AbsentSlotIsInert ==
    (last.op \in Slots /\ PLUGIN_API[last.op] = None) =>
        (host = "alive" /\ ret # NoReturn)

----------------------------------------------------------------------------
(* Claims about GetInfo.                                                   *)

RECURSIVE UpToNul(_)
\* The bytes before the first zero byte, or all of them when there is none.
UpToNul(s) ==
    IF s = <<>> \/ Head(s) = NUL THEN <<>>
    ELSE <<Head(s)>> \o UpToNul(Tail(s))

\* The fields of PluginInfo and the attribute each is generated from.
InfoFields == {"social_platform", "name", "version"}

\* C6 as claimed: the text of each string GetInfo stores is exactly the value
\* given to the attribute, with no character added or removed.  The text is
\* read from the pointed-to bytes up to their first zero byte, or to their
\* end.
C6_GetInfoExactValues ==
    plugin_info # None =>
        \A f \in InfoFields : UpToNul(plugin_info[1][f].alloc) = attrs[f][1]

\* C7 as claimed: each pointer GetInfo stores points to a byte sequence whose
\* last byte is the null terminator.
C7_NulTerminated ==
    plugin_info # None =>
        \A f \in InfoFields :
            /\ plugin_info[1][f].alloc # <<>>
            /\ plugin_info[1][f].alloc[Len(plugin_info[1][f].alloc)] = NUL

----------------------------------------------------------------------------
(* Claims about the attribute macro.                                       *)

\* Some argument of the list carries the name id.
Supplied(id) == \E i \in 1..Len(args) : args[i].ident = id

\* Every argument is one of the three attributes with a string literal.
WellFormed ==
    \A i \in 1..Len(args) :
        args[i].ident \in {"platform", "name", "version"} /\ args[i].value # NotStr

AllSupplied == Supplied("platform") /\ Supplied("name") /\ Supplied("version")

\* C8: the macro ends in the symbols or in a compile error; it emits the
\* symbols only when all three attributes are supplied; over lists of the
\* three attributes it emits them exactly when all three are supplied; and a
\* list with an argument of any other name is a compile error.
C8_SymbolsIffAllThree ==
    expanded # "pending" =>
        /\ expanded \in {"symbols", "compile_error"}
        /\ expanded = "symbols" => (item = "fn" /\ AllSupplied)
        /\ (item = "fn" /\ WellFormed) => (expanded = "symbols" <=> AllSupplied)
        /\ Supplied("other") => expanded = "compile_error"

\* C8 witness: platform and name are supplied, version is omitted, and the
\* macro has ended in a compile error.
C8_Witness ==
    /\ expanded = "compile_error"
    /\ item = "fn"
    /\ WellFormed
    /\ Len(args) = 2
    /\ Supplied("platform") /\ Supplied("name") /\ ~Supplied("version")

AttributeOf(f) == IF f = "social_platform" THEN "platform" ELSE f

\* The value of the last argument of the list named id.
LastValue(id) ==
    args[CHOOSE i \in 1..Len(args) :
            /\ args[i].ident = id
            /\ \A j \in (i + 1)..Len(args) : args[j].ident # id].value

====
